---- MODULE Spec2Model ----
(***************************************************************************)
(* headlineGPT: the corpus compaction (csv_to_tensor, stot, ttos), the     *)
(* boundary-aligned block dataset (BlockPairDataset) and the control of    *)
(* the training loop (Train): plateau detection, learning-rate decay,      *)
(* stopping and the checkpoint save.                                       *)
(*                                                                         *)
(* Three specifications share the module:                                  *)
(*   SpecCsv    csv_to_tensor applied to a bounded CSV, then stot / ttos   *)
(*   SpecData   BlockPairDataset.__init__ and __getitem__ on a bounded     *)
(*              token stream                                               *)
(*   SpecTrain  Train, one action per loop test, batch, epoch end, save    *)
(* Each leaves the variables of the other two at their initial values.     *)
(***************************************************************************)
EXTENDS Integers, Sequences, FiniteSets, TLC

VARIABLES
    \* ---- Train (src/train.py) ----
    pc,              \* position in Train: "while", "batch", "report", "done", "crashed" ("idle": not called)
    loss_curve_tr,   \* list of training means, one per evaluation
    loss_curve_val,  \* list of validation losses, one per evaluation
    indices_back,    \* how far back the plateau test looks
    step,            \* global batch counter
    lr,              \* the learning rate, a rational <<numerator, denominator>> in units of 1e-6
    epoch_idx,       \* epochs completed
    loss_val,        \* <<>> while the local is unbound, <<v>> once assigned
    param_groups,    \* optimizer.param_groups[g]['lr'], rationals like lr
    batch_idx,       \* batches of the current epoch already consumed
    saves,           \* number of torch.save calls made
    eval_interval,   \* argument of Train
    num_batches,     \* len(train_loader)
    num_val_batches, \* len(val_loader)
    \* ---- csv_to_tensor, stot, ttos (src/data_utils.py) ----
    rows,            \* the CSV: per row the tokenization of its text column (<<>> for an empty cell)
    jokes,           \* ids_c, the corpus in compact ids
    comp2orig,       \* compact id -> original id (position k holds compact id k-1)
    joke_len,        \* tokenized length of each kept row
    all_ids,         \* the corpus in original ids (the local `ids` of csv_to_tensor)
    pcCsv,           \* "start", "loaded" ("idle": not imported)
    probe,           \* the last stot / ttos call: <<kind, argument, result>>
    \* ---- BlockPairDataset (src/data_utils.py) ----
    data,            \* self.data
    T,               \* self.T
    random,          \* self.random
    starts,          \* self.starts
    pcDs,            \* "new", "ready", "crashed" ("idle": not built)
    s,               \* the start picked by the last __getitem__; -1 before the first
    seq,             \* the (T+1)-token window of the last __getitem__
    x,               \* returned input block
    y                \* returned target block

trainVars == <<pc, loss_curve_tr, loss_curve_val, indices_back, step, lr, epoch_idx,
               loss_val, param_groups, batch_idx, saves, eval_interval, num_batches,
               num_val_batches>>
csvVars == <<rows, jokes, joke_len, all_ids, pcCsv, probe>>
dsVars == <<data, T, random, starts, pcDs, s, seq, x, y>>
vars == <<trainVars, csvVars, comp2orig, dsVars>>
notTrainVars == <<csvVars, comp2orig, dsVars>>

(***************************************************************************)
(* Bounds of the model.                                                    *)
(***************************************************************************)
MaxEvals == 6          \* evaluations recorded before the model stops exploring
MaxEvalInterval == 2   \* eval_interval ranges over 1..MaxEvalInterval
MaxBatches == 3        \* len(train_loader) ranges over 1..MaxBatches
MaxRows == 2           \* CSV rows
MaxRowLen == 2         \* tokens per CSV row
MaxLen == 5            \* tokens in the stream handed to BlockPairDataset
MaxT == 3              \* block size

\* Validation losses an evaluation may produce (positive: a cross-entropy mean).
\* 998/1000 and 996/1000 sit exactly on the two thresholds; 996/998 lies between them.
LossValues == {1000, 998, 996, 500, 250}
\* Learning rates the optimizer may start with, in units of 1e-6.
InitLrs == {<<1, 1>>, <<2, 1>>, <<3, 1>>}
\* Sizes of the validation loader: empty, or not.
ValLoaderLens == {0, 1}
\* optimizer.param_groups: the group Train reads lr from, and one more
Groups == {1, 2}

(***************************************************************************)
(* Rationals <<n, d>> with d > 0.                                          *)
(***************************************************************************)
RatLt(a, b) == a[1] * b[2] < b[1] * a[2]
RatLe(a, b) == a[1] * b[2] <= b[1] * a[2]
RatEq(a, b) == a[1] * b[2] = b[1] * a[2]

\* minimal_lr=1e-6, in units of 1e-6
minimal_lr == <<1, 1>>

(***************************************************************************)
(* Train (src/train.py).                                                   *)
(***************************************************************************)
\* Python's xs[-k] on a list held as a 1-based sequence
PyNeg(xs, k) == xs[Len(xs) - k + 1]

\* int(len(loss_curve_val) * 0.2) + 2
IndicesBack(n) == ((n * 2) \div 10) + 2

\* faulty variant: the threshold itself counts as a plateau
PlateauDecayInclusive(last, ref) == last * 1000 >= 996 * ref

\* last / ref > 0.996, for ref > 0
PlateauDecay(last, ref) == last * 1000 > 996 * ref

\* faulty variant: the threshold itself counts as improving
StillImprovingInclusive(last, ref) == last * 1000 <= 998 * ref

\* last / ref < 0.998, for ref > 0
StillImproving(last, ref) == last * 1000 < 998 * ref

\* lr /= 1.5
DecayLr(l) == <<l[1] * 2, l[2] * 3>>

\* the test of the while loop
\* (`or` does not evaluate its right operand when the left one holds)
WhileCond ==
    IF Len(loss_curve_val) < 2
    THEN TRUE
    ELSE /\ StillImproving(PyNeg(loss_curve_val, 1), PyNeg(loss_curve_val, indices_back))
         /\ RatLt(minimal_lr, lr)

\* the guard of the plot / learning-rate block at the end of an epoch
AdjustGuard == Len(loss_curve_tr) > 1

\* step % eval_interval == 0, for the value step takes in this iteration
EvalDue(st) == st % eval_interval = 0

InitCsvIdle ==
    /\ rows = <<>> /\ jokes = <<>> /\ comp2orig = <<>> /\ joke_len = <<>>
    /\ all_ids = <<>> /\ pcCsv = "idle" /\ probe = <<>>

InitDsIdle ==
    /\ data = <<>> /\ T = 1 /\ random = FALSE /\ starts = <<>> /\ pcDs = "idle"
    /\ s = -1 /\ seq = <<>> /\ x = <<>> /\ y = <<>>

InitTrainIdle ==
    /\ pc = "idle" /\ loss_curve_tr = <<>> /\ loss_curve_val = <<>> /\ indices_back = 1
    /\ step = 0 /\ lr = <<1, 1>> /\ epoch_idx = 0 /\ loss_val = <<>>
    /\ param_groups = [g \in Groups |-> <<1, 1>>] /\ batch_idx = 0 /\ saves = 0
    /\ eval_interval = 1 /\ num_batches = 1 /\ num_val_batches = 1

\* Train's locals on entry, for every optimizer and loader it may be handed
InitTrain ==
    /\ pc = "while"
    /\ loss_curve_tr = <<>>
    /\ loss_curve_val = <<>>
    /\ indices_back = 1
    /\ step = 0
    /\ param_groups \in [Groups -> InitLrs]
    /\ lr = param_groups[1]
    /\ epoch_idx = 0
    /\ loss_val = <<>>
    /\ batch_idx = 0
    /\ saves = 0
    /\ eval_interval \in 1..MaxEvalInterval
    /\ num_batches \in 1..MaxBatches
    /\ num_val_batches \in ValLoaderLens
    /\ InitCsvIdle /\ comp2orig = <<>> /\ InitDsIdle

\* the while test holds: the for loop over train_loader begins
StartEpoch ==
    /\ pc = "while"
    /\ WhileCond
    /\ pc' = "batch"
    /\ batch_idx' = 0
    /\ UNCHANGED notTrainVars
    /\ UNCHANGED <<loss_curve_tr, loss_curve_val, indices_back, step, lr, epoch_idx,
                   loss_val, param_groups, saves, eval_interval, num_batches,
                   num_val_batches>>

\* where control goes after the batch that makes `done` batches of this epoch
AfterBatch(done) == IF done = num_batches THEN "report" ELSE "batch"

\* one iteration of the for loop in which no evaluation is due
TrainStepNoEval ==
    /\ pc = "batch"
    /\ batch_idx < num_batches
    /\ ~EvalDue(step + 1)
    /\ step' = step + 1
    /\ batch_idx' = batch_idx + 1
    /\ pc' = AfterBatch(batch_idx + 1)
    /\ UNCHANGED notTrainVars
    /\ UNCHANGED <<loss_curve_tr, loss_curve_val, indices_back, lr, epoch_idx, loss_val,
                   param_groups, saves, eval_interval, num_batches, num_val_batches>>

\* one iteration of the for loop with the evaluation over val_loader
TrainStepEval ==
    /\ pc = "batch"
    /\ batch_idx < num_batches
    /\ EvalDue(step + 1)
    /\ num_val_batches > 0
    /\ Len(loss_curve_val) < MaxEvals
    /\ \E v \in LossValues :
          /\ loss_val' = <<v>>
          /\ loss_curve_val' = Append(loss_curve_val, v)
    /\ loss_curve_tr' = Append(loss_curve_tr, "mean")
    /\ step' = step + 1
    /\ batch_idx' = batch_idx + 1
    /\ pc' = AfterBatch(batch_idx + 1)
    /\ UNCHANGED notTrainVars
    /\ UNCHANGED <<indices_back, lr, epoch_idx, param_groups, saves, eval_interval,
                   num_batches, num_val_batches>>

\* the evaluation over an empty val_loader: idx_block is unbound at line 56
TrainStepEvalCrash ==
    /\ pc = "batch"
    /\ batch_idx < num_batches
    /\ EvalDue(step + 1)
    /\ num_val_batches = 0
    /\ loss_curve_tr' = Append(loss_curve_tr, "mean")
    /\ step' = step + 1
    /\ pc' = "crashed"
    /\ UNCHANGED notTrainVars
    /\ UNCHANGED <<loss_curve_val, indices_back, lr, epoch_idx, loss_val, param_groups,
                   batch_idx, saves, eval_interval, num_batches, num_val_batches>>

\* the report of line 67 reads loss_val before any evaluation assigned it
ReportCrash ==
    /\ pc = "report"
    /\ loss_val = <<>>
    /\ epoch_idx' = epoch_idx + 1
    /\ pc' = "crashed"
    /\ UNCHANGED notTrainVars
    /\ UNCHANGED <<loss_curve_tr, loss_curve_val, indices_back, step, lr, loss_val,
                   param_groups, batch_idx, saves, eval_interval, num_batches,
                   num_val_batches>>

\* lines 61-89: the report, then the plot and the learning-rate adjustment
EpochEnd ==
    /\ pc = "report"
    /\ loss_val # <<>>
    /\ epoch_idx' = epoch_idx + 1
    /\ IF AdjustGuard
       THEN /\ indices_back' = IndicesBack(Len(loss_curve_val))
            /\ IF PlateauDecay(PyNeg(loss_curve_val, 1),
                               PyNeg(loss_curve_val, indices_back'))
               THEN /\ lr' = DecayLr(lr)
                    /\ param_groups' = [g \in Groups |-> lr']
               ELSE UNCHANGED <<lr, param_groups>>
       ELSE UNCHANGED <<indices_back, lr, param_groups>>
    /\ pc' = "while"
    /\ UNCHANGED notTrainVars
    /\ UNCHANGED <<loss_curve_tr, loss_curve_val, step, loss_val, batch_idx, saves,
                   eval_interval, num_batches, num_val_batches>>

\* the while test fails: torch.save, and Train returns
SaveCheckpoint ==
    /\ pc = "while"
    /\ ~WhileCond
    /\ saves' = saves + 1
    /\ pc' = "done"
    /\ UNCHANGED notTrainVars
    /\ UNCHANGED <<loss_curve_tr, loss_curve_val, indices_back, step, lr, epoch_idx,
                   loss_val, param_groups, batch_idx, eval_interval, num_batches,
                   num_val_batches>>

NextTrain ==
    \/ StartEpoch
    \/ TrainStepNoEval
    \/ TrainStepEval
    \/ TrainStepEvalCrash
    \/ ReportCrash
    \/ EpochEnd
    \/ SaveCheckpoint

SpecTrain == InitTrain /\ [][NextTrain]_vars

(***************************************************************************)
(* csv_to_tensor, orig2comp, stot, ttos (src/data_utils.py).               *)
(***************************************************************************)
\* Token ids tok.encode may return.  The largest stands for '<|endoftext|>':
\* in cl100k_base no id that encode returns with allowed_special={eos} is above it.
OrigVocab == {2, 5, 9}
EosOrig == CHOOSE v \in OrigVocab : \A w \in OrigVocab : w <= v

\* all sequences over S of length lo..hi
SeqsOf(S, lo, hi) == UNION {[1..n -> S] : n \in lo..hi}

RECURSIVE Concat(_)
Concat(xss) == IF xss = <<>> THEN <<>> ELSE Head(xss) \o Concat(Tail(xss))

\* the rows the loop keeps: `if not j: continue`
KeptRows(rs) == SelectSeq(rs, LAMBDA r : r # <<>>)

\* all_ids after the loop: every kept row's tokens followed by the EOS token
AllIds(rs) ==
    LET kept == KeptRows(rs)
    IN  Concat([k \in DOMAIN kept |-> kept[k] \o <<EosOrig>>])

\* joke_len after the loop
JokeLen(rs) ==
    LET kept == KeptRows(rs)
    IN  [k \in DOMAIN kept |-> Len(kept[k])]

RECURSIVE Ascending(_)
Ascending(S) ==
    IF S = {} THEN <<>>
    ELSE LET m == CHOOSE v \in S : \A w \in S : v <= w
         IN  <<m>> \o Ascending(S \ {m})

\* faulty variant: the distinct values in descending order, as an unsorted unique may give
UniqueUnsorted(ids) ==
    LET asc == Ascending({ids[k] : k \in DOMAIN ids})
    IN  [k \in DOMAIN asc |-> asc[Len(asc) - k + 1]]

\* first output of torch.unique(ids, sorted=True, return_inverse=True)
UniqueSorted(ids) == Ascending({ids[k] : k \in DOMAIN ids})

\* second output: for each position the 0-based index of its value in the first
UniqueInverse(ids, uniq) ==
    [k \in DOMAIN ids |-> (CHOOSE c \in DOMAIN uniq : uniq[c] = ids[k]) - 1]

\* orig2comp = {int(o): i for i, o in enumerate(comp2orig.tolist())}
Orig2Comp(c2o) ==
    [o \in {c2o[c] : c \in DOMAIN c2o} |->
        (CHOOSE c \in DOMAIN c2o : c2o[c] = o /\ \A d \in DOMAIN c2o : c2o[d] = o => d <= c) - 1]

\* stot on a string whose tokenization is ids; defined when every id is a key
StotDefined(c2o, ids) == \A k \in DOMAIN ids : ids[k] \in DOMAIN Orig2Comp(c2o)
Stot(c2o, ids) == [k \in DOMAIN ids |-> Orig2Comp(c2o)[ids[k]]]

\* ttos up to tok.decode: comp2orig[t]
Ttos(c2o, t) == [k \in DOMAIN t |-> c2o[t[k] + 1]]

\* the arguments stot and ttos are called with here: both map their argument
\* element by element, so one-token arguments show all they do
OneToken(S) == {<<v>> : v \in S}

InitCsv ==
    /\ rows \in SeqsOf(SeqsOf(OrigVocab, 0, MaxRowLen), 0, MaxRows)
    /\ jokes = <<>>
    /\ comp2orig = <<>>
    /\ joke_len = <<>>
    /\ all_ids = <<>>
    /\ pcCsv = "start"
    /\ probe = <<>>
    /\ InitTrainIdle /\ InitDsIdle

\* lines 60-66: csv_to_tensor on the CSV, at import of data_utils
LoadCorpus ==
    /\ pcCsv = "start"
    /\ all_ids' = AllIds(rows)
    /\ joke_len' = JokeLen(rows)
    /\ comp2orig' = UniqueSorted(all_ids')
    /\ jokes' = UniqueInverse(all_ids', comp2orig')
    /\ pcCsv' = "loaded"
    /\ UNCHANGED <<rows, probe, trainVars, dsVars>>

\* stot(s) for a string s of the corpus vocabulary
StotCall ==
    /\ pcCsv = "loaded"
    /\ \E ids \in OneToken(OrigVocab) :
          /\ StotDefined(comp2orig, ids)
          /\ probe' = <<"stot", ids, TRUE, Stot(comp2orig, ids)>>
    /\ UNCHANGED <<rows, jokes, comp2orig, joke_len, all_ids, pcCsv, trainVars, dsVars>>

\* stot(s) for a string with a token the corpus never used: orig2comp[x] raises KeyError
StotKeyError ==
    /\ pcCsv = "loaded"
    /\ \E ids \in OneToken(OrigVocab) :
          /\ ~StotDefined(comp2orig, ids)
          /\ probe' = <<"stot", ids, FALSE, <<>> >>
    /\ UNCHANGED <<rows, jokes, comp2orig, joke_len, all_ids, pcCsv, trainVars, dsVars>>

\* ttos(t) for a tensor t of compact ids
TtosCall ==
    /\ pcCsv = "loaded"
    /\ \E t \in OneToken(0..(Len(comp2orig) - 1)) :
          probe' = <<"ttos", t, TRUE, Ttos(comp2orig, t)>>
    /\ UNCHANGED <<rows, jokes, comp2orig, joke_len, all_ids, pcCsv, trainVars, dsVars>>

NextCsv ==
    \/ LoadCorpus
    \/ StotCall
    \/ StotKeyError
    \/ TtosCall

SpecCsv == InitCsv /\ [][NextCsv]_vars

\* C5: csv_to_tensor compacts the token ids to 0..V_used-1: every element of
\* ids_c lies in that range, every value of the range occurs in ids_c,
\* comp2orig is strictly increasing, comp2orig[ids_c[i]] is the original id at
\* position i, and orig2comp and comp2orig are inverse to each other, so that
\* ttos undoes stot and stot undoes ttos.
C5_CompactionIsBijection ==
    pcCsv = "loaded" =>
        LET V_used == Len(comp2orig)
            o2c == Orig2Comp(comp2orig)
        IN  /\ Len(jokes) = Len(all_ids)
            /\ \A i \in DOMAIN jokes : jokes[i] \in 0..(V_used - 1)
            /\ \A c \in 0..(V_used - 1) : \E i \in DOMAIN jokes : jokes[i] = c
            /\ \A c \in 1..(V_used - 1) : comp2orig[c] < comp2orig[c + 1]
            /\ \A i \in DOMAIN jokes : comp2orig[jokes[i] + 1] = all_ids[i]
            /\ \A c \in 0..(V_used - 1) : o2c[comp2orig[c + 1]] = c
            /\ \A o \in DOMAIN o2c : comp2orig[o2c[o] + 1] = o
            /\ (probe # <<>> /\ probe[1] = "stot" /\ probe[3])
                  => Ttos(comp2orig, probe[4]) = probe[2]
            /\ (probe # <<>> /\ probe[1] = "ttos")
                  => (StotDefined(comp2orig, probe[4]) /\ Stot(comp2orig, probe[4]) = probe[2])

\* a corpus of two kept rows that uses a gapped vocabulary (id 2 never occurs),
\* loaded, with a stot call answered
C5_Witness ==
    /\ pcCsv = "loaded"
    /\ Len(joke_len) = 2
    /\ comp2orig = <<5, 9>>
    /\ Len(jokes) >= 4
    /\ probe # <<>>
    /\ probe[1] = "stot"
    /\ probe[3]

(***************************************************************************)
(* BlockPairDataset (src/data_utils.py).  Positions and starts are 0-based *)
(* as in the code; position p of the stream is data[p + 1].                *)
(***************************************************************************)
\* nl_id = stot("<|endoftext|>"), a one-element tensor; .item() where a scalar is needed
NlId(c2o) == Stot(c2o, <<EosOrig>>)[1]

\* torch.where(self.data == nl_id)[0]: the positions holding nl_id, ascending
NlPositions(d, nl) == Ascending({p \in 0..(Len(d) - 1) : d[p + 1] = nl})

\* faulty variant: the last EOS position is not dropped
StartsOfKeepLast(nl_positions) ==
    [k \in 1..Len(nl_positions) |-> nl_positions[k] + 1]

\* nl_positions[:-1] + 1
StartsOf(nl_positions) ==
    [k \in 1..(Len(nl_positions) - 1) |-> nl_positions[k] + 1]

Min(a, b) == IF a <= b THEN a ELSE b

\* end = min(s + self.T + 1, len(self.data))
WindowEnd(d, t, st) == Min(st + t + 1, Len(d))

\* self.data[s:end]
Slice(d, st, end) == SubSeq(d, st + 1, end)

\* faulty variant: pads to T tokens instead of T+1
PadLenShort(t, numel) == t - numel

\* pad_len = self.T + 1 - seq.numel()
PadLen(t, numel) == t + 1 - numel

\* faulty variant: pads with zeros
PadValueZero(c2o) == 0

\* the value torch.full fills the pad with
PadValue(c2o) == NlId(c2o)

\* lines 112-119: the window of T+1 tokens, padded when the stream ends first
Window(d, t, st, c2o) ==
    LET cut == Slice(d, st, WindowEnd(d, t, st))
    IN  IF Len(cut) < t + 1
        THEN cut \o [k \in 1..PadLen(t, Len(cut)) |-> PadValue(c2o)]
        ELSE cut

\* x = seq[:-1]
InputOf(sq) == SubSeq(sq, 1, Len(sq) - 1)

\* faulty variant: the target is not shifted
TargetOfUnshifted(sq) == SubSeq(sq, 1, Len(sq) - 1)

\* y = seq[1:]
TargetOf(sq) == SubSeq(sq, 2, Len(sq))

\* the vocabularies csv_to_tensor can return: none (empty corpus), or one with EOS
VocabMaps == {Ascending(S) : S \in {V \in SUBSET OrigVocab : V = {} \/ EosOrig \in V}}

\* the arguments BlockPairDataset may be built with, over every vocabulary
InitData ==
    /\ comp2orig \in VocabMaps
    /\ data \in SeqsOf(0..(Len(comp2orig) - 1), 0, MaxLen)
    /\ T \in 1..MaxT
    /\ random \in BOOLEAN
    /\ starts = <<>>
    /\ pcDs = "new"
    /\ s = -1
    /\ seq = <<>>
    /\ x = <<>>
    /\ y = <<>>
    /\ InitTrainIdle
    /\ rows = <<>> /\ jokes = <<>> /\ joke_len = <<>> /\ all_ids = <<>>
    /\ pcCsv = "idle" /\ probe = <<>>

\* BlockPairDataset.__init__
Construct ==
    /\ pcDs = "new"
    /\ StotDefined(comp2orig, <<EosOrig>>)
    /\ starts' = StartsOf(NlPositions(data, NlId(comp2orig)))
    /\ pcDs' = "ready"
    /\ UNCHANGED <<data, T, random, s, seq, x, y, comp2orig, trainVars, csvVars>>

\* BlockPairDataset.__init__ over an empty corpus: stot raises KeyError
ConstructKeyError ==
    /\ pcDs = "new"
    /\ ~StotDefined(comp2orig, <<EosOrig>>)
    /\ pcDs' = "crashed"
    /\ UNCHANGED <<data, T, random, starts, s, seq, x, y, comp2orig, trainVars, csvVars>>

\* lines 111-124 for the start st
Sample(st) ==
    /\ s' = st
    /\ seq' = Window(data, T, st, comp2orig)
    /\ x' = InputOf(seq')
    /\ y' = TargetOf(seq')

\* __getitem__ with random=True: torch.randint(len(self.starts), (1,)) picks the start
GetItemRandom ==
    /\ pcDs = "ready"
    /\ random
    /\ \E r \in 0..(Len(starts) - 1) : Sample(starts[r + 1])
    /\ UNCHANGED <<data, T, random, starts, pcDs, comp2orig, trainVars, csvVars>>

\* __getitem__ with random=True and no start: torch.randint(0, (1,)) raises
GetItemRandomEmpty ==
    /\ pcDs = "ready"
    /\ random
    /\ Len(starts) = 0
    /\ pcDs' = "crashed"
    /\ UNCHANGED <<data, T, random, starts, s, seq, x, y, comp2orig, trainVars, csvVars>>

\* __getitem__(i) with random=False, for the indices 0..N-1 a DataLoader asks for
GetItemSequential ==
    /\ pcDs = "ready"
    /\ ~random
    /\ \E i \in 0..(Len(starts) - 1) : Sample(starts[i + 1])
    /\ UNCHANGED <<data, T, random, starts, pcDs, comp2orig, trainVars, csvVars>>

NextData ==
    \/ Construct
    \/ ConstructKeyError
    \/ GetItemRandom
    \/ GetItemRandomEmpty
    \/ GetItemSequential

SpecData == InitData /\ [][NextData]_vars

(***************************************************************************)
(* Claims about BlockPairDataset, checked under SpecData.                  *)
(***************************************************************************)
\* a __getitem__ has returned
Sampled == pcDs = "ready" /\ s # -1

\* the compact id of '<|endoftext|>'
Eos == CHOOSE c \in 0..(Len(comp2orig) - 1) : comp2orig[c + 1] = EosOrig

\* C1: for every stream, block size T >= 1 and start in starts, __getitem__
\* returns x and y of exactly T tokens each, in random and sequential mode,
\* also when fewer than T+1 tokens remain after the start.
C1_BlocksHaveLengthT ==
    Sampled => (Len(x) = T /\ Len(y) = T)

\* a random-mode sample whose start has fewer than T+1 tokens after it
C1_Witness ==
    /\ Sampled
    /\ random
    /\ Len(data) - s < T + 1
    /\ Len(x) = T

\* C2: every start s satisfies 1 <= s < len(data) with data[s-1] the EOS
\* token, the position after the last EOS of the stream is no start, and a
\* sample's start is one of the starts with x[0] = data[s].
C2_StartsAtTextBoundary ==
    pcDs = "ready" =>
        /\ \A k \in DOMAIN starts :
              /\ 1 <= starts[k]
              /\ starts[k] < Len(data)
              /\ data[starts[k]] = Eos
        /\ \A p \in 0..(Len(data) - 1) :
              (data[p + 1] = Eos /\ \A q \in (p + 1)..(Len(data) - 1) : data[q + 1] # Eos)
                 => \A k \in DOMAIN starts : starts[k] # p + 1
        /\ s # -1 =>
              /\ \E k \in DOMAIN starts : starts[k] = s
              /\ x[1] = data[s + 1]

\* a sequential-mode sample from a stream with tokens after its last EOS
C2_Witness ==
    /\ Sampled
    /\ ~random
    /\ Len(starts) >= 2
    /\ data[Len(data)] # Eos
    /\ x[1] = data[s + 1]

\* C3: y is x shifted by one: y[k] = x[k+1] for 0 <= k < T-1, and x[k], y[k]
\* are elements k and k+1 of the same window of T+1 tokens.
C3_TargetIsShiftedInput ==
    Sampled =>
        /\ Len(seq) = T + 1
        /\ \A k \in 0..(T - 2) : y[k + 1] = x[k + 2]
        /\ \A k \in 0..(T - 1) : x[k + 1] = seq[k + 1] /\ y[k + 1] = seq[k + 2]

\* a sample of a block of three or more tokens that are not all equal
C3_Witness ==
    /\ Sampled
    /\ T >= 3
    /\ x[1] # x[2]
    /\ y[1] = x[2]
    /\ y[T] # x[T]

\* C4: the window holds data[s+k] wherever s+k is inside the stream and the
\* EOS token wherever it is past the end (0 <= k <= T); a window that fits
\* inside the stream is the plain slice, EOS tokens inside it included.
C4_PaddingOnlyPastTheEnd ==
    Sampled =>
        /\ DOMAIN seq = 1..(T + 1)
        /\ \A k \in 0..T :
              IF s + k < Len(data)
              THEN seq[k + 1] = data[s + k + 1]
              ELSE seq[k + 1] = Eos
        /\ s + T + 1 <= Len(data) => seq = SubSeq(data, s + 1, s + T + 1)

\* a window that runs over a text boundary inside the stream (an EOS followed
\* by another text's token) and then past the end of the stream
C4_Witness ==
    /\ Sampled
    /\ s + T + 1 > Len(data)
    /\ \E k \in 1..(T - 1) :
          /\ s + k + 1 <= Len(data)
          /\ seq[k] = Eos
          /\ seq[k + 1] # Eos
    /\ seq[T + 1] = Eos

(***************************************************************************)
(* Claims about Train, checked under SpecTrain.                            *)
(***************************************************************************)
\* the validation loss k places from the end, k = 1 being the last one
ValBack(k) == loss_curve_val[Len(loss_curve_val) - k + 1]

\* a step that carries Train from the end of the for loop back to the while test
EpochEndStep == pc = "report" /\ pc' = "while"

\* C6: at the end of every epoch with n = len(loss_curve_val) >= 2 and
\* back = floor(0.2*n) + 2, lr is divided by 1.5 and written to every param
\* group if and only if loss_curve_val[n-1] / loss_curve_val[n-back] > 0.996;
\* otherwise lr and every group's lr stay as they were.  lr never increases.
C6_PlateauDrivesDecay ==
    [][ /\ (EpochEndStep /\ Len(loss_curve_val) >= 2) =>
           LET n == Len(loss_curve_val)
               back == (n \div 5) + 2
           IN  IF ValBack(1) * 1000 > 996 * ValBack(back)
               THEN /\ 3 * lr'[1] * lr[2] = 2 * lr[1] * lr'[2]
                    /\ \A g \in Groups : param_groups'[g] = lr'
               ELSE /\ lr' = lr
                    /\ param_groups' = param_groups
        /\ RatLe(lr', lr)
      ]_vars

\* an epoch end with five or more losses (so back = 3), after a run of at
\* least three epochs in which lr was decayed exactly once
C6_Witness ==
    /\ pc = "while"
    /\ Len(loss_curve_val) >= 5
    /\ epoch_idx >= 3
    /\ lr[2] = 3

\* C7: from the while test Train starts another epoch iff fewer than two
\* validation losses are recorded, or the last loss over the one indices_back
\* places back is < 0.998 and lr > minimal_lr.  The checkpoint is saved at
\* most once, Train returns only after saving it, the save happens only with
\* at least two losses recorded and (ratio >= 0.998 or lr <= minimal_lr), and
\* nothing is trained after it.
C7_ContinueTest ==
    IF Len(loss_curve_val) < 2
    THEN TRUE
    ELSE /\ ValBack(1) * 1000 < 998 * ValBack(indices_back)
         /\ lr[1] * minimal_lr[2] > minimal_lr[1] * lr[2]

C7_PlateauDrivesStopping ==
    /\ [][ /\ pc = "while" => (pc' = "batch" <=> C7_ContinueTest)
           /\ pc = "while" => (saves' = saves + 1 <=> ~C7_ContinueTest)
           /\ saves' # saves => pc = "while" /\ epoch_idx >= 1
           /\ saves >= 1 => (step' = step /\ loss_curve_val' = loss_curve_val
                             /\ epoch_idx' = epoch_idx /\ saves' = saves)
         ]_vars
    /\ [](saves <= 1)
    /\ [](pc = "done" <=> saves = 1)
    /\ [](saves = 1 => /\ Len(loss_curve_val) >= 2
                       /\ ~C7_ContinueTest)

\* Train has returned after several epochs and two decays, stopped by the
\* learning rate alone: the loss was still improving by the 0.998 test
C7_Witness ==
    /\ pc = "done"
    /\ saves = 1
    /\ epoch_idx >= 2
    /\ lr[2] >= 9
    /\ ValBack(1) * 1000 < 998 * ValBack(indices_back)
    /\ RatLe(lr, minimal_lr)

\* C8: at the end of every epoch at least one validation evaluation has been
\* performed, so the report of loss_val reads a bound value.
C8_LossValBoundAtReport ==
    pc = "report" => (Len(loss_curve_val) >= 1 /\ loss_val # <<>>)

====
